---- MODULE Spec2Model ----
(***************************************************************************)
(* PixelPick query selection (src/query.py): QuerySelector, its budgeted   *)
(* top-k selection, UncertaintySampler and QueryStats.                      *)
(*                                                                         *)
(* Numbers.  A probability is a numerator over ProbDenom.  Scores of       *)
(* least_confidence, margin_sampling and random are numerators over        *)
(* ProbDenom as well, so 1.0 is ProbDenom.  Shannon entropy is kept by the  *)
(* order-isomorphic integer ProbDenom^ProbDenom - PROD_c p_c^p_c (entropy   *)
(* is ln D - (1/D) ln PROD p_c^p_c), which is 0 exactly when entropy is 0.  *)
(* top_n_percent is a rational <<num, den>>.  Probabilities are positive,   *)
(* as softmax of finite logits is, so no entropy is nan.                    *)
(* A tensor or array of shape (h, w) is a function on Cells(h, w); a        *)
(* boolean one is the set of its true cells.  Where torch or numpy leave    *)
(* the result open (ties in topk, a random draw) every result is possible.  *)
(***************************************************************************)
EXTENDS Integers, Sequences, FiniteSets, TLC

\* ---------------------------------------------------------------- bounds
NPixels == 2        \* pixels per image (h * w)
NImages == 2        \* images in the pool, at most
MaxRounds == 2      \* active-learning rounds run on one selector
MaxBudget == 3      \* n_pixels_by_us ranges over 1..MaxBudget
ProbDenom == 4      \* resolution of the probabilities the network returns
MaxMcSteps == 2     \* mc_n_steps ranges over 1..MaxMcSteps
NClasses == 2       \* args.n_classes

\* args.ignore_index, the void label
IgnoreIndex == 255

Strategies == {"entropy", "least_confidence", "margin_sampling", "random"}
Percents == {<<0, 1>>, <<1, 2>>, <<1, 1>>}
Datasets == {"voc", "cs"}
Shapes == {s \in (1..NPixels) \X (1..NPixels) : s[1] * s[2] = NPixels}
Classes == 0..(NClasses - 1)
Labels == Classes \cup {IgnoreIndex}
NaN == "nan"

VARIABLES
  \* QuerySelector.__init__
  dataset_name, query_strategy, reverse_order, top_n_percent, n_pixels_by_us,
  use_mc_dropout, mc_n_steps,
  \* QueryStats
  dict_label_cnt, list_entropy, list_n_unique_labels, list_spatial_coverage,
  \* QuerySelector.__call__
  pc, n_images, nth_query, batch_ind, list_queries, n_pixels, error, returned,
  \* what the collaborators saw: calls made in this run, forward passes,
  \* whether the pool offered an eligible pixel
  calls, n_forward, any_eligible,
  \* one image through masking and _select_queries
  img, sel

cfgvars == <<dataset_name, query_strategy, reverse_order, top_n_percent,
             n_pixels_by_us, use_mc_dropout, mc_n_steps>>
statvars == <<dict_label_cnt, list_entropy, list_n_unique_labels,
              list_spatial_coverage>>
runvars == <<pc, n_images, nth_query, batch_ind, list_queries, n_pixels, error,
             returned, calls, n_forward, any_eligible>>
imgvars == <<img, sel>>
vars == <<cfgvars, statvars, runvars, imgvars>>

\* ------------------------------------------------------------- arrays
Cells(h, w) == (0..(h - 1)) \X (0..(w - 1))
FlatIdx(h, w) == 0..(h * w - 1)
\* tensor.flatten(): row-major
Flatten(a, h, w) == [i \in FlatIdx(h, w) |-> a[<<i \div w, i % w>>]]
\* query.reshape((h, w)) of a boolean vector, as the set of its true cells
Reshape(S, h, w) == {<<i \div w, i % w>> : i \in S}
FlatOf(c, w) == c[1] * w + c[2]

RECURSIVE SetSum(_, _)
SetSum(f, S) ==
  IF S = {} THEN 0
  ELSE LET x == CHOOSE x \in S : TRUE IN f[x] + SetSum(f, S \ {x})

RECURSIVE SetProd(_, _)
SetProd(f, S) ==
  IF S = {} THEN 1
  ELSE LET x == CHOOSE x \in S : TRUE IN f[x] * SetProd(f, S \ {x})

\* the members of a set of integers in ascending order
RECURSIVE Ascending(_)
Ascending(S) ==
  IF S = {} THEN <<>>
  ELSE LET m == CHOOSE x \in S : \A y \in S : x <= y
       IN <<m>> \o Ascending(S \ {m})

SubsetsOfSize(S, k) == {T \in SUBSET S : Cardinality(T) = k}

\* F.softmax output at one pixel
ProbVecs == {p \in [Classes -> 1..ProbDenom] : SetSum(p, Classes) = ProbDenom}
RandValues == 0..(ProbDenom - 1)
One == ProbDenom

\* ------------------------------------------------- UncertaintySampler
\* (-prob * log(prob)).sum(dim=1)
Entropy(p) == ProbDenom ^ ProbDenom - SetProd([c \in Classes |-> p[c] ^ p[c]], Classes)

MaxProb(p) == CHOOSE m \in 1..ProbDenom : (\E c \in Classes : p[c] = m)
                                        /\ (\A c \in Classes : p[c] <= m)
LeastConfidence(p) == One - MaxProb(p)

\* prob.topk(k=2, dim=1): the two largest entries
MarginSampling(p) ==
  LET c1 == CHOOSE c \in Classes : p[c] = MaxProb(p)
      rest == Classes \ {c1}
      second == CHOOSE m \in 1..ProbDenom : (\E c \in rest : p[c] = m)
                                         /\ (\A c \in rest : p[c] <= m)
      d == MaxProb(p) - second
  IN IF d < 0 THEN -d ELSE d

UncertaintySampler(strategy, p, r) ==
  CASE strategy = "entropy" -> Entropy(p)
    [] strategy = "least_confidence" -> LeastConfidence(p)
    [] strategy = "margin_sampling" -> MarginSampling(p)
    [] strategy = "random" -> r

\* every score the sampler can return for one pixel
UcValues(strategy) ==
  {UncertaintySampler(strategy, p, r) : p \in ProbVecs, r \in RandValues}

\* ------------------------------------------- QuerySelector._select_queries
\* the test `self.query_strategy in ["entropy", "least_confidence"]` given to
\* topk as `largest`
LargestEntropyOnly(strategy) == strategy = "entropy"
Largest(strategy) == strategy \in {"entropy", "least_confidence"}

\* value written outside the sampling mask in reverse order
SamplingMaskValue(strategy) ==
  IF strategy \in {"entropy", "least_confidence"} THEN 0 ELSE One

\* k = int(h * w * top_n_percent) if top_n_percent > 0 else n_pixels_by_us
TopKSizeAlwaysPercent(h, w, p, n) == (h * w * p[1]) \div p[2]
TopKSize(h, w, p, n) == IF p[1] > 0 THEN (h * w * p[1]) \div p[2] ELSE n

\* tensor.topk(k, largest).indices as a set: every index set torch may return,
\* ties broken either way.  rem: indices not taken yet.
RECURSIVE TopKFrom(_, _, _, _)
TopKFrom(uc, rem, k, largest) ==
  IF k = 0 THEN {{}}
  ELSE LET best == {i \in rem : \A j \in rem :
                      IF largest THEN uc[i] >= uc[j] ELSE uc[i] <= uc[j]}
       IN UNION {{s \cup {i} : s \in TopKFrom(uc, rem \ {i}, k - 1, largest)} :
                 i \in best}
TopK(uc, k, largest) == TopKFrom(uc, DOMAIN uc, k, largest)

\* np.random.choice(a, size, False): the possible draws; none when it raises
\* ValueError (size larger than the population)
ChoiceWithReplacement(a, size) ==
  IF size > 0 /\ a = {} THEN {}
  ELSE {T \in SUBSET a : Cardinality(T) <= size /\ (size > 0 => T # {})}
Choice(a, size) ==
  IF size > Cardinality(a) THEN {} ELSE SubsetsOfSize(a, size)

SelErr(e, flat) == [outcome |-> e, pool |-> {}, topk_in |-> flat, query |-> {}]
SelOk(pool, flat, q, h, w) ==
  [outcome |-> "selected", pool |-> pool, topk_in |-> flat,
   query |-> Reshape(q, h, w)]

\* every way _select_queries(uc_map) can end for an h x w map
SelectQueries(uc_map, h, w, strategy, reverse, p, n) ==
  LET hw == h * w
      flat == Flatten(uc_map, h, w)
      k == TopKSize(h, w, p, n)
      lg == Largest(strategy)
  IN IF reverse
     THEN IF ~(p[1] > 0) THEN {SelErr("AssertionError", flat)}
          ELSE IF Choice(FlatIdx(h, w), k) = {} THEN {SelErr("ValueError", flat)}
          ELSE UNION {
            LET masked == [i \in FlatIdx(h, w) |->
                             IF i \in pool THEN flat[i]
                             ELSE SamplingMaskValue(strategy)]
            IN IF n > hw THEN {SelErr("RuntimeError", masked)}
               ELSE {SelOk(pool, masked, q, h, w) : q \in TopK(masked, n, lg)}
            : pool \in Choice(FlatIdx(h, w), k)}
     ELSE IF k > hw THEN {SelErr("RuntimeError", flat)}
          ELSE UNION {
            IF p[1] > 0
            THEN IF Choice(ind, n) = {} THEN {SelErr("ValueError", flat)}
                 ELSE {SelOk(ind, flat, q, h, w) : q \in Choice(ind, n)}
            ELSE {SelOk(ind, flat, ind, h, w)}
            : ind \in TopK(flat, k, lg)}

\* ------------------------------------- QuerySelector.__call__, one image
\* mask_void = (y == self.ignore_index)
MaskVoid(y) == [c \in DOMAIN y |-> y[c] = IgnoreIndex]

\* value written to pixels that are annotated already or void
MaskValue(strategy) ==
  IF strategy \in {"entropy", "least_confidence"} THEN 0 ELSE One

\* uc_map[mask] = v; uc_map[mask_void] = v
MaskIneligible(uc_map, mask, mask_void, strategy) ==
  LET a == [c \in DOMAIN uc_map |->
              IF mask[c] THEN MaskValue(strategy) ELSE uc_map[c]]
  IN [c \in DOMAIN uc_map |->
        IF mask_void[c] THEN MaskValue(strategy) ELSE a[c]]

NoImg == [h |-> 0, w |-> 0, y |-> <<>>, mask |-> <<>>, uc |-> <<>>]
NoSel == [outcome |-> "input", pool |-> {}, topk_in |-> <<>>, query |-> {},
          uc_map |-> <<>>]

InitStats ==
  /\ dict_label_cnt = [l \in Classes |-> 0]
  /\ list_entropy = <<>>
  /\ list_n_unique_labels = <<>>
  /\ list_spatial_coverage = <<>>

InitRun ==
  /\ pc = "idle"
  /\ nth_query = 0
  /\ batch_ind = 0
  /\ list_queries = <<>>
  /\ n_pixels = 0
  /\ error = "none"
  /\ returned = <<>>
  /\ calls = <<>>
  /\ n_forward = 0
  /\ any_eligible = FALSE

InitConfig ==
  /\ query_strategy \in Strategies
  /\ reverse_order \in BOOLEAN
  /\ top_n_percent \in Percents
  /\ n_pixels_by_us \in 1..MaxBudget

\* one image: the scores the sampler returned for it, its labels and its
\* eligibility mask
InitSel ==
  /\ InitConfig
  /\ dataset_name = "cs"
  /\ use_mc_dropout = FALSE
  /\ mc_n_steps = 1
  /\ n_images = 1
  /\ InitStats
  /\ InitRun
  /\ \E s \in Shapes :
       \E y \in [Cells(s[1], s[2]) -> {0, IgnoreIndex}],
          mask \in [Cells(s[1], s[2]) -> BOOLEAN],
          uc \in [Cells(s[1], s[2]) -> UcValues(query_strategy)] :
         img = [h |-> s[1], w |-> s[2], y |-> y, mask |-> mask, uc |-> uc]
  /\ sel = NoSel

\* lines 106-111: mask the ineligible pixels, then select
SelectImage ==
  /\ sel.outcome = "input"
  /\ LET uc_map == MaskIneligible(img.uc, img.mask, MaskVoid(img.y), query_strategy)
     IN \E r \in SelectQueries(uc_map, img.h, img.w, query_strategy,
                               reverse_order, top_n_percent, n_pixels_by_us) :
          sel' = [outcome |-> r.outcome, pool |-> r.pool, topk_in |-> r.topk_in,
                  query |-> r.query, uc_map |-> uc_map]
  /\ UNCHANGED <<cfgvars, statvars, runvars, img>>

NextSel == SelectImage

SpecSel == InitSel /\ [][NextSel]_vars

\* ------------------------------------------------------------ QueryStats
\* for l in y.flatten()[query.flatten()]: self.dict_label_cnt[l] += 1
\* ls: the labels still to count.  A label that is no key raises KeyError and
\* leaves the counts made so far.
RECURSIVE CountLabels(_, _)
CountLabels(cnt, ls) ==
  IF ls = <<>> THEN [cnt |-> cnt, err |-> "none"]
  ELSE IF Head(ls) \notin DOMAIN cnt THEN [cnt |-> cnt, err |-> "KeyError"]
  ELSE CountLabels([cnt EXCEPT ![Head(ls)] = @ + 1], Tail(ls))

\* a.flatten()[query.flatten()]: the entries at the selected cells, row-major
Selected(a, query, h, w) ==
  LET idx == Ascending({FlatOf(c, w) : c \in query})
  IN [t \in 1..Len(idx) |-> Flatten(a, h, w)[idx[t]]]

GetEntropy(query, prob, h, w) ==
  Selected([c \in DOMAIN prob |-> Entropy(prob[c])], query, h, w)

NUniqueLabels(query, y) == Cardinality({y[c] : c \in query})

\* the mean pairwise distance, kept as the squared distances it is the mean of
\* the square roots of (one per ordered pair of distinct selected cells); nan
\* when fewer than two cells are selected
SpatialCoverage(query, w) ==
  LET idx == Ascending({FlatOf(c, w) : c \in query})
      m == Len(idx)
      cell(t) == <<idx[t] \div w, idx[t] % w>>
      d2(a, b) == (a[1] - b[1]) * (a[1] - b[1]) + (a[2] - b[2]) * (a[2] - b[2])
  IN IF m < 2 THEN NaN
     ELSE [t \in 1..(m * (m - 1)) |->
             LET i == ((t - 1) \div (m - 1)) + 1
                 o == ((t - 1) % (m - 1)) + 1
                 j == IF o < i THEN o ELSE o + 1
             IN d2(cell(i), cell(j))]

\* what QueryStats.update(query, y, prob) reads of its arguments: the labels
\* and entropies at the selected cells in row-major order, the number of
\* distinct labels, the spatial coverage
UpdateArgs(query, y, prob, h, w) ==
  [labels |-> Selected(y, query, h, w),
   ents |-> GetEntropy(query, prob, h, w),
   uniq |-> NUniqueLabels(query, y),
   cov |-> SpatialCoverage(query, w)]

\* QueryStats.update on the statistics st
StatsUpdate(st, u) ==
  LET counted == CountLabels(st.cnt, u.labels)
  IN IF counted.err # "none"
     THEN [st EXCEPT !.cnt = counted.cnt, !.err = counted.err]
     ELSE [cnt |-> counted.cnt,
           ent |-> st.ent \o u.ents,
           uniq |-> Append(st.uniq, u.uniq),
           cov |-> Append(st.cov, u.cov),
           err |-> "none"]

\* ------------------------------------------------ QuerySelector.__call__
Mask(h, w, q) == [h |-> h, w |-> w, q |-> q]
Call(op, n, arg) == [op |-> op, n |-> n, arg |-> arg]

Init ==
  /\ InitConfig
  /\ dataset_name \in Datasets
  /\ use_mc_dropout \in BOOLEAN
  /\ mc_n_steps \in 1..MaxMcSteps
  /\ n_images \in 0..NImages
  /\ InitStats
  /\ InitRun
  /\ img = NoImg
  /\ sel = NoSel

\* what a call of the selector resets: the locals of __call__ and what the
\* collaborators have seen of this run
EnterCall ==
  /\ pc' = "loop"
  /\ batch_ind' = 0
  /\ list_queries' = <<>>
  /\ n_pixels' = 0
  /\ returned' = <<>>
  /\ calls' = <<>>
  /\ n_forward' = 0
  /\ any_eligible' = FALSE
  /\ UNCHANGED <<cfgvars, statvars, n_images, error, imgvars>>

\* the first call of a selector, for round 0
StartRun ==
  /\ pc = "idle"
  /\ nth_query' = 0
  /\ EnterCall

\* the caller runs the next round on the same selector
NextRun ==
  /\ pc = "done"
  /\ nth_query + 1 < MaxRounds
  /\ nth_query' = nth_query + 1
  /\ EnterCall

\* the Monte-Carlo branch: mc_n_steps passes, then line 98 reads up_map,
\* a local that was never assigned
McDropout ==
  /\ pc = "loop"
  /\ batch_ind < n_images
  /\ use_mc_dropout
  /\ n_forward' = n_forward + mc_n_steps
  /\ error' = "UnboundLocalError"
  /\ pc' = "failed"
  /\ UNCHANGED <<cfgvars, statvars, n_images, nth_query, batch_ind, list_queries,
                 n_pixels, returned, calls, any_eligible, imgvars>>

\* lines 106-111 for one image and each score map of ucs: mask the
\* ineligible pixels, select.  Every way it can end, as <<outcome, QueryMask>>.
MaskSelect(ucs, y, mask, h, w) ==
  UNION {
    {<<r.outcome, r.query>> :
       r \in SelectQueries(MaskIneligible(uc, mask, MaskVoid(y), query_strategy),
                           h, w, query_strategy, reverse_order, top_n_percent,
                           n_pixels_by_us)}
    : uc \in ucs}

\* self.uncertainty_sampler(prob) for an h x w image: the maps it can return.
\* _random reads the shape of prob only.
RandomMaps(h, w) == [Cells(h, w) -> RandValues]
ScoreMaps(prob, h, w) ==
  IF query_strategy = "random" THEN RandomMaps(h, w)
  ELSE {[c \in Cells(h, w) |-> UncertaintySampler(query_strategy, prob[c], 0)]}

\* what one pass of the loop body can hand on, over every image the pool may
\* hold (labels y, eligibility mask) and every output of the network (prob):
\* how the selection ended, the QueryMask, the arguments of update, and
\* whether the image had an eligible pixel
ImageResults ==
  UNION {UNION {UNION {
    LET of_random == MaskSelect(RandomMaps(s[1], s[2]), y, mask, s[1], s[2])
    IN UNION {
         {[outcome |-> r[1],
           query |-> Mask(s[1], s[2], r[2]),
           upd |-> IF r[1] = "selected"
                   THEN UpdateArgs(r[2], y, prob, s[1], s[2])
                   ELSE [labels |-> <<>>, ents |-> <<>>, uniq |-> 0, cov |-> NaN],
           elig |-> \E c \in Cells(s[1], s[2]) : ~mask[c] /\ ~MaskVoid(y)[c]] :
            r \in IF query_strategy = "random" THEN of_random
                  ELSE MaskSelect(ScoreMaps(prob, s[1], s[2]), y, mask, s[1], s[2])}
         : prob \in [Cells(s[1], s[2]) -> ProbVecs]}
    : mask \in [Cells(s[1], s[2]) -> BOOLEAN]}
    : y \in [Cells(s[1], s[2]) -> Labels]}
    : s \in Shapes}

\* one pass of the loop body over image batch_ind
LoopBody ==
  /\ pc = "loop"
  /\ batch_ind < n_images
  /\ ~use_mc_dropout
  /\ n_forward' = n_forward + 1
  /\ \E r \in ImageResults :
       /\ any_eligible' = (any_eligible \/ r.elig)
       /\ IF r.outcome # "selected"
          THEN /\ error' = r.outcome
               /\ pc' = "failed"
               /\ UNCHANGED <<statvars, batch_ind, list_queries, n_pixels, calls>>
          ELSE LET st == StatsUpdate(
                           [cnt |-> dict_label_cnt, ent |-> list_entropy,
                            uniq |-> list_n_unique_labels,
                            cov |-> list_spatial_coverage, err |-> "none"],
                           r.upd)
               IN /\ list_queries' = Append(list_queries, r.query)
                  /\ n_pixels' = n_pixels + Cardinality(r.query.q)
                  /\ calls' = Append(calls, Call("update", batch_ind, <<r.query>>))
                  /\ dict_label_cnt' = st.cnt
                  /\ list_entropy' = st.ent
                  /\ list_n_unique_labels' = st.uniq
                  /\ list_spatial_coverage' = st.cov
                  /\ error' = st.err
                  /\ pc' = IF st.err = "none" THEN "loop" ELSE "failed"
                  /\ batch_ind' = IF st.err = "none" THEN batch_ind + 1
                                  ELSE batch_ind
  /\ UNCHANGED <<cfgvars, n_images, nth_query, returned, imgvars>>

\* np.stack(list_queries, axis=0) needs one shape
Stackable(qs) == \A i, j \in 1..Len(qs) : qs[i].h = qs[j].h /\ qs[i].w = qs[j].w

\* lines 117-125: what the end of the round calls, raises and returns
RoundEndLabelFirst(qs, nth, name) ==
  IF Len(qs) = 0
  THEN [calls |-> <<Call("save", nth, <<>>)>>, err |-> "AssertionError",
        ret |-> <<>>]
  ELSE IF name # "voc" /\ ~Stackable(qs)
  THEN [calls |-> <<Call("save", nth, <<>>)>>, err |-> "ValueError", ret |-> <<>>]
  ELSE [calls |-> <<Call("label_queries", nth + 1, qs), Call("save", nth, <<>>)>>,
        err |-> "none", ret |-> qs]
RoundEnd(qs, nth, name) ==
  IF Len(qs) = 0
  THEN [calls |-> <<Call("save", nth, <<>>)>>, err |-> "AssertionError",
        ret |-> <<>>]
  ELSE IF name # "voc" /\ ~Stackable(qs)
  THEN [calls |-> <<Call("save", nth, <<>>)>>, err |-> "ValueError", ret |-> <<>>]
  ELSE [calls |-> <<Call("save", nth, <<>>), Call("label_queries", nth + 1, qs)>>,
        err |-> "none", ret |-> qs]

FinishRun ==
  /\ pc = "loop"
  /\ batch_ind = n_images
  /\ LET e == RoundEnd(list_queries, nth_query, dataset_name)
     IN /\ calls' = calls \o e.calls
        /\ error' = e.err
        /\ returned' = e.ret
        /\ pc' = IF e.err = "none" THEN "done" ELSE "failed"
  /\ UNCHANGED <<cfgvars, statvars, n_images, nth_query, batch_ind, list_queries,
                 n_pixels, n_forward, any_eligible, imgvars>>

Next == StartRun \/ McDropout \/ LoopBody \/ FinishRun

Spec == Init /\ [][Next]_vars

\* rounds in succession on one selector: a pool of one image, a fixed budget
\* taken directly, no Monte-Carlo dropout
InitRounds ==
  /\ query_strategy \in Strategies
  /\ reverse_order = FALSE
  /\ top_n_percent = <<0, 1>>
  /\ n_pixels_by_us \in 1..MaxBudget
  /\ dataset_name \in Datasets
  /\ use_mc_dropout = FALSE
  /\ mc_n_steps = 1
  /\ n_images = 1
  /\ InitStats
  /\ InitRun
  /\ img = NoImg
  /\ sel = NoSel

NextRounds == StartRun \/ NextRun \/ LoopBody \/ FinishRun

SpecRounds == InitRounds /\ [][NextRounds]_vars

\* ================================================================ claims
Ineligible(c) == img.mask[c] \/ img.y[c] = IgnoreIndex
MaskReturned == sel.outcome = "selected"
DirectFixed == ~reverse_order /\ top_n_percent[1] = 0
PercentMode == top_n_percent[1] > 0
ImgCells == Cells(img.h, img.w)
BetterOrEqual(a, b) ==
  IF query_strategy \in {"entropy", "least_confidence"} THEN a >= b ELSE a <= b

\* C1: no pixel that is already queried (true in the eligibility mask) or void
\* (label ignore_index) is true in the QueryMask selected for its image.
C1_IneligibleNeverSelected ==
  MaskReturned => \A c \in sel.query : ~Ineligible(c)

\* C2: in direct mode with top_n_percent = 0 and h * w >= n_pixels_by_us,
\* _select_queries returns an h x w mask with exactly n_pixels_by_us true
\* entries, for every uncertainty map and strategy.
C2_DirectFixedExactBudget ==
  (sel.outcome # "input" /\ DirectFixed /\ img.h * img.w >= n_pixels_by_us)
    => /\ MaskReturned
       /\ sel.query \subseteq ImgCells
       /\ Cardinality(sel.query) = n_pixels_by_us

\* a fixed budget smaller than the image was taken: some pixel was left out
C2_Witness ==
  /\ MaskReturned /\ DirectFixed
  /\ n_pixels_by_us < img.h * img.w
  /\ Cardinality(sel.query) = n_pixels_by_us
  /\ \E c \in ImgCells : c \notin sel.query

\* C3: in percentage mode the mask _select_queries returns never has more than
\* n_pixels_by_us true entries, and has exactly n_pixels_by_us whenever
\* h * w * top_n_percent >= n_pixels_by_us.
C3_PercentBudget ==
  (MaskReturned /\ PercentMode)
    => /\ Cardinality(sel.query) <= n_pixels_by_us
       /\ (img.h * img.w * top_n_percent[1] >= n_pixels_by_us * top_n_percent[2]
             => Cardinality(sel.query) = n_pixels_by_us)

\* direct percentage mode subsampled: a top-k candidate was not kept
C3_Witness ==
  /\ MaskReturned /\ PercentMode /\ ~reverse_order
  /\ Cardinality(sel.query) = n_pixels_by_us
  /\ \E i \in sel.pool : <<i \div img.w, i % img.w>> \notin sel.query

\* C4: in two-stage randomized mode the returned mask has exactly
\* n_pixels_by_us true entries and every one of them is a position of the
\* random candidate pool.
C4_ReverseWithinPool ==
  (MaskReturned /\ reverse_order /\ PercentMode)
    => /\ Cardinality(sel.query) = n_pixels_by_us
       /\ \A c \in sel.query : FlatOf(c, img.w) \in sel.pool

\* C6: in direct mode with a fixed budget the selected pixels are the most
\* uncertain under the strategy's polarity (every selected score >= every
\* unselected score for entropy and least_confidence, <= for margin_sampling
\* and random), and masked pixels carry 0 resp. 1 under the same polarity.
C6_DirectTopByPolarity ==
  (MaskReturned /\ DirectFixed)
    => /\ \A c \in sel.query : \A d \in ImgCells \ sel.query :
            BetterOrEqual(sel.uc_map[c], sel.uc_map[d])
       /\ \A c \in ImgCells :
            Ineligible(c) =>
              sel.uc_map[c] =
                (IF query_strategy \in {"entropy", "least_confidence"} THEN 0 ELSE One)

\* least_confidence preferred a strictly more uncertain pixel to a masked one
C6_Witness ==
  /\ MaskReturned /\ DirectFixed
  /\ query_strategy = "least_confidence"
  /\ \E c \in sel.query : \E d \in ImgCells \ sel.query :
       /\ Ineligible(d)
       /\ ~Ineligible(c)
       /\ sel.uc_map[c] > sel.uc_map[d]

\* C5: when no image of the pool has an eligible pixel, run fails with the
\* no-queries error: it never returns masks or calls label_queries.
C5_NoEligibleNoReturn ==
  pc = "done" => any_eligible

ExpectedCalls ==
  [i \in 1..n_images |-> Call("update", i - 1, <<list_queries[i]>>)]
    \o <<Call("save", nth_query, <<>>),
         Call("label_queries", nth_query + 1, list_queries)>>

\* C7: a run that completes has called update once per image in pool order
\* with that image's selection, then save(round_index) once, then
\* label_queries(masks, round_index + 1) once with one mask per image in pool
\* order, and returns the same masks.
C7_CallOrder ==
  pc = "done"
    => /\ Len(list_queries) = n_images
       /\ calls = ExpectedCalls
       /\ returned = list_queries

\* a run over a pool of several images with different selections completed
C7_Witness ==
  /\ pc = "done"
  /\ n_images >= 2
  /\ list_queries[1] # list_queries[2]
  /\ Len(calls) = n_images + 2

\* C8: at the start of every run on a selector the label histogram is all
\* zeros and the entropy, unique-label and spatial-coverage lists are empty.
C8_StatsFreshAtRunStart ==
  (pc = "loop" /\ batch_ind = 0)
    => /\ \A l \in Classes : dict_label_cnt[l] = 0
       /\ list_entropy = <<>>
       /\ list_n_unique_labels = <<>>
       /\ list_spatial_coverage = <<>>

\* C9: after the updates of a round the label-histogram counts sum to the
\* number of true QueryMask entries over the images processed so far in that
\* round.
C9_HistogramSumsToSelected ==
  (pc \in {"loop", "done"} /\ batch_ind >= 1)
    => SetSum(dict_label_cnt, Classes) = n_pixels

\* C10: with use_mc_dropout the run makes mc_n_steps passes per image,
\* completes and returns masks as the non-MC path does.
C10_McDropoutCompletes ==
  (use_mc_dropout /\ n_images > 0 /\ pc \in {"done", "failed"})
    => /\ pc = "done"
       /\ n_forward = mc_n_steps * n_images

====
